---- MODULE Spec2Model ----
(***************************************************************************)
(* State-machine model of the ORDO agent-registry program:                 *)
(*   - register_agent     (instructions/register_agent.rs)                 *)
(*   - update_reputation  (instructions/update_reputation.rs)              *)
(*   - create_agent_permission, add_group_member, remove_group_member,     *)
(*     create_private_agent (permission_hooks.rs)                          *)
(*                                                                         *)
(* Every instruction is one action.  An action runs, in the order the      *)
(* framework runs them, (1) the checks of the instruction's Accounts       *)
(* struct, (2) the handler body, (3) the write-back ("exit") of the        *)
(* accounts the struct declares init or mut; the instruction's effects     *)
(* are kept only when all three return Ok.                                 *)
(*                                                                         *)
(* Strings are modelled by their byte length (the code only reads          *)
(* len()), public keys by small integers, a program-derived address by     *)
(* the tuple of its seeds, an Option by a set of at most one element.      *)
(* The two AgentAccount structs (state.rs and permission_hooks.rs) carry   *)
(* the same type name and live at the same address; a stored agent is      *)
(* modelled as one record with the fields of both and a layout tag.        *)
(***************************************************************************)
EXTENDS Integers, Sequences, FiniteSets, TLC

VARIABLES
    agent_accounts,      \* address -> stored AgentAccount (or Empty)
    reputation_records,  \* address -> stored ReputationRecord (or Empty)
    groups,              \* permission program: group id -> group (or NoGroup)
    permissions,         \* permission program: set of (delegated account, group)
    last                 \* the last instruction submitted, with its result

vars == <<agent_accounts, reputation_records, groups, permissions, last>>

----------------------------------------------------------------------------
(* Bounds of the model *)

\* Number of distinct public keys (signers, raters, group members).
NumKeys == 3

\* Largest value of the signed score type.  The program uses i64; the model
\* narrows the type so that a few ratings of at most 100 can leave its range.
I64_MAX == 150

I64_MIN == -I64_MAX - 1

Keys == 1..NumKeys

\* Keys that submit register_agent / create_private_agent.
Registrants == {1, 2}

\* Identifiers of permission groups.
GroupIds == {1, 2}

\* Clock::get()?.unix_timestamp
Now == 1

----------------------------------------------------------------------------
(* Program constants *)

MAX_NAME_LEN == 50
MAX_DESCRIPTION_LEN == 200
MAX_URI_LEN == 200
MAX_SERVICES == 10
MAX_SERVICE_LEN == 50
MAX_COMMENT_LEN == 500

\* AgentAccount::BASE_SIZE
AgentAccount_BASE_SIZE == 8 + 32 + 4 + 4 + 4 + 4 + 1 + 1 + 1 + 32 + 8 + 8 + 4 + 1

\* ReputationRecord::BASE_SIZE
ReputationRecord_BASE_SIZE == 8 + 32 + 32 + 8 + 4 + 8 + 1

\* space = AgentAccount::BASE_SIZE + 256
RegisterAgent_space == AgentAccount_BASE_SIZE + 256

\* space = ReputationRecord::BASE_SIZE + 256
UpdateReputation_space == ReputationRecord_BASE_SIZE + 256

\* space = 8 + 32 + 64 + 8 + 4 + 8 + 33
CreatePrivateAgent_space == 8 + 32 + 64 + 8 + 4 + 8 + 33

AGENT_PDA_SEED == "agent"
REPUTATION_SEED == "reputation"

----------------------------------------------------------------------------
(* Addresses *)

\* Pubkey::find_program_address: the address is determined by the seeds.
AgentAddress(authority) == <<AGENT_PDA_SEED, authority>>

ReputationAddress(agent, rater) == <<REPUTATION_SEED, agent, rater>>

AgentAddrs == {AgentAddress(k) : k \in Registrants}

ReputationAddrs == {ReputationAddress(a, r) : a \in AgentAddrs, r \in Keys}

\* An address that holds no account (no lamports, no data).
Empty == [layout |-> "empty"]

NoGroup == [exists |-> FALSE, members |-> {}]

----------------------------------------------------------------------------
(* Sizes of the serialized accounts *)

RECURSIVE SumServices(_)
\* services.iter().map(|s| 4 + s.len()).sum()
SumServices(services) ==
    IF services = <<>> THEN 0
    ELSE 4 + Head(services) + SumServices(Tail(services))

\* Borsh size of an Option<Pubkey>: 1 byte for None, 1 + 32 for Some.
OptionSize(opt) == IF opt = {} THEN 1 ELSE 1 + 32

\* Bytes the stored AgentAccount takes: discriminator, then each field.
AgentAccountSize(a) ==
    IF a.layout = "registry"
    THEN 8 + 32 + (4 + a.name) + (4 + a.description) + (4 + a.agent_uri)
           + (4 + SumServices(a.services)) + 1 + 1 + OptionSize(a.parent_agent)
           + 8 + 8 + 4 + 1
    ELSE 8 + 32 + (4 + a.name) + 8 + 4 + 8 + OptionSize(a.permission_group)

\* Bytes the stored ReputationRecord takes.
ReputationRecordSize(r) == 8 + 32 + 32 + 8 + (4 + r.comment) + 8 + 1

----------------------------------------------------------------------------
(* What every instruction shares *)

\* The value a handler returns, with the state its writes have produced so far.
Outcome(result, agents, records, grps, perms) ==
    [result |-> result, agent_accounts |-> agents, reputation_records |-> records,
     groups |-> grps, permissions |-> perms]

\* Account::default() of a freshly allocated agent account.
ZeroAgentAccount(layout) ==
    [layout |-> layout, authority |-> 0, name |-> 0, description |-> 0,
     agent_uri |-> 0, services |-> <<>>, x402_support |-> FALSE, active |-> FALSE,
     parent_agent |-> {}, registered_at |-> 0, reputation_score |-> 0,
     generation |-> 0, balance |-> 0, permission_group |-> {}]

\* Account::default() of a freshly allocated reputation record.
ZeroReputationRecord ==
    [layout |-> "reputation", agent |-> <<>>, rater |-> 0, score |-> 0,
     comment |-> 0, timestamp |-> 0]

\* #[account(init_if_needed, ...)]: as init, but an occupied address is accepted.
init_if_needed(store, addr, fresh) ==
    [result |-> "Ok",
     store |-> IF store[addr] = Empty THEN [store EXCEPT ![addr] = fresh] ELSE store]

\* #[account(init, ...)]: allocate the account at addr; the system program
\* refuses an address that already holds an account.
init(store, addr, fresh) ==
    IF store[addr] # Empty
    THEN [result |-> "AccountAlreadyInUse", store |-> store]
    ELSE [result |-> "Ok", store |-> [store EXCEPT ![addr] = fresh]]

\* Write-back of an init or mut account when the handler has returned Ok: the
\* in-memory value is serialized into the account's data, which has the size
\* given at allocation; a value that does not fit is an error.
exit(store, addr, value, size, space) ==
    IF size > space
    THEN [result |-> "AccountDidNotSerialize", store |-> store]
    ELSE [result |-> "Ok", store |-> [store EXCEPT ![addr] = value]]

\* The entrypoint returns the handler's Result to the host, which keeps the
\* instruction's writes only when it is Ok.
Commit(out) ==
    /\ agent_accounts' =
          IF out.result = "Ok" THEN out.agent_accounts ELSE agent_accounts
    /\ reputation_records' =
          IF out.result = "Ok" THEN out.reputation_records ELSE reputation_records
    /\ groups' = IF out.result = "Ok" THEN out.groups ELSE groups
    /\ permissions' = IF out.result = "Ok" THEN out.permissions ELSE permissions

----------------------------------------------------------------------------
(* register_agent *)

\* The handler without its third require! (agent_uri).
register_agent_handler_uri_unchecked(agent_account, authority, args) ==
    IF ~(args.name <= MAX_NAME_LEN)
    THEN [result |-> "NameTooLong", account |-> agent_account]
    ELSE IF ~(args.description <= MAX_DESCRIPTION_LEN)
    THEN [result |-> "DescriptionTooLong", account |-> agent_account]
    ELSE IF ~(Len(args.services) <= MAX_SERVICES)
    THEN [result |-> "TooManyServices", account |-> agent_account]
    ELSE IF \E i \in 1..Len(args.services) : ~(args.services[i] <= MAX_SERVICE_LEN)
    THEN [result |-> "ServiceNameTooLong", account |-> agent_account]
    ELSE [result |-> "Ok",
          account |-> [agent_account EXCEPT
                          !.authority = authority,
                          !.name = args.name,
                          !.description = args.description,
                          !.agent_uri = args.agent_uri,
                          !.services = args.services,
                          !.x402_support = args.x402_support,
                          !.active = TRUE,
                          !.parent_agent = {},
                          !.registered_at = Now,
                          !.reputation_score = 0,
                          !.generation = args.generation]]

\* The require! checks and the field writes of the handler.
register_agent_handler(agent_account, authority, args) ==
    IF ~(args.name <= MAX_NAME_LEN)
    THEN [result |-> "NameTooLong", account |-> agent_account]
    ELSE IF ~(args.description <= MAX_DESCRIPTION_LEN)
    THEN [result |-> "DescriptionTooLong", account |-> agent_account]
    ELSE IF ~(args.agent_uri <= MAX_URI_LEN)
    THEN [result |-> "UriTooLong", account |-> agent_account]
    ELSE IF ~(Len(args.services) <= MAX_SERVICES)
    THEN [result |-> "TooManyServices", account |-> agent_account]
    ELSE IF \E i \in 1..Len(args.services) : ~(args.services[i] <= MAX_SERVICE_LEN)
    THEN [result |-> "ServiceNameTooLong", account |-> agent_account]
    ELSE [result |-> "Ok",
          account |-> [agent_account EXCEPT
                          !.authority = authority,
                          !.name = args.name,
                          !.description = args.description,
                          !.agent_uri = args.agent_uri,
                          !.services = args.services,
                          !.x402_support = args.x402_support,
                          !.active = TRUE,
                          !.parent_agent = {},
                          !.registered_at = Now,
                          !.reputation_score = 0,
                          !.generation = args.generation]]

\* The whole instruction: RegisterAgent's init, the handler, the write-back.
register_agent(authority, args) ==
    LET addr == AgentAddress(authority)
        created == init(agent_accounts, addr, ZeroAgentAccount("registry"))
    IN  IF created.result # "Ok"
        THEN Outcome(created.result, agent_accounts, reputation_records,
                     groups, permissions)
        ELSE
        LET h == register_agent_handler(created.store[addr], authority, args)
        IN  IF h.result # "Ok"
            THEN Outcome(h.result, created.store, reputation_records,
                         groups, permissions)
            ELSE
            LET written == exit(created.store, addr, h.account,
                                AgentAccountSize(h.account), RegisterAgent_space)
            IN  Outcome(written.result, written.store, reputation_records,
                        groups, permissions)

\* n services of the same length.
Services(n, len) == [i \in 1..n |-> len]

RegisterArg(name, description, agent_uri, services, x402_support, generation) ==
    [name |-> name, description |-> description, agent_uri |-> agent_uri,
     services |-> services, x402_support |-> x402_support,
     generation |-> generation]

\* The arguments register_agent is called with: a small record, a record that
\* fills the allocated space to the byte, one byte more, every bound reached
\* at once, each bound exceeded by one, and several bounds exceeded at once.
RegisterArgs ==
    { RegisterArg(5, 0, 0, <<>>, TRUE, 0),
      RegisterArg(MAX_NAME_LEN, MAX_DESCRIPTION_LEN, 30, <<4>>, FALSE, 1),
      RegisterArg(MAX_NAME_LEN, MAX_DESCRIPTION_LEN, 31, <<4>>, FALSE, 1),
      RegisterArg(MAX_NAME_LEN, MAX_DESCRIPTION_LEN, MAX_URI_LEN,
                  Services(MAX_SERVICES, MAX_SERVICE_LEN), TRUE, 0),
      RegisterArg(MAX_NAME_LEN + 1, 0, 0, <<>>, TRUE, 0),
      RegisterArg(5, MAX_DESCRIPTION_LEN + 1, 0, <<>>, TRUE, 0),
      RegisterArg(5, 0, MAX_URI_LEN + 1, <<>>, TRUE, 0),
      RegisterArg(5, 0, 0, Services(MAX_SERVICES + 1, 0), TRUE, 0),
      RegisterArg(5, 0, 0, <<MAX_SERVICE_LEN + 1>>, TRUE, 0),
      RegisterArg(5, 0, MAX_URI_LEN + 1, <<MAX_SERVICE_LEN + 1>>, TRUE, 0),
      RegisterArg(MAX_NAME_LEN + 1, MAX_DESCRIPTION_LEN + 1, MAX_URI_LEN + 1,
                  Services(MAX_SERVICES + 1, MAX_SERVICE_LEN + 1), TRUE, 0) }

RegisterAgent ==
    \E authority \in Registrants, args \in RegisterArgs :
        LET out == register_agent(authority, args)
        IN  /\ Commit(out)
            /\ last' = [op |-> "register_agent", authority |-> authority,
                        args |-> args, result |-> out.result]

----------------------------------------------------------------------------
(* update_reputation *)

\* i64::wrapping_add
wrapping_add(a, b) ==
    {((a + b - I64_MIN) % (I64_MAX - I64_MIN + 1)) + I64_MIN}

\* i64::saturating_add
saturating_add(a, b) ==
    IF a + b > I64_MAX THEN {I64_MAX}
    ELSE IF a + b < I64_MIN THEN {I64_MIN}
    ELSE {a + b}

\* i64::checked_add: None when the sum leaves the type's range.
checked_add(a, b) ==
    IF a + b > I64_MAX \/ a + b < I64_MIN THEN {} ELSE {a + b}

\* The third require! with its comparison left out.
rater_check_omitted(agent_account, rater) == TRUE

\* The condition of the third require!: the rater is not the agent's authority.
rater_is_not_authority(agent_account, rater) == agent_account.authority # rater

\* The require! checks, the writes to the new record and the checked addition.
update_reputation_handler(agent_account, reputation_record, agent_addr, rater, score, comment) ==
    IF ~(score >= -100 /\ score <= 100)
    THEN [result |-> "InvalidReputationScore", agent |-> agent_account,
          record |-> reputation_record]
    ELSE IF ~(comment <= MAX_COMMENT_LEN)
    THEN [result |-> "CommentTooLong", agent |-> agent_account,
          record |-> reputation_record]
    ELSE IF ~rater_is_not_authority(agent_account, rater)
    THEN [result |-> "CannotRateSelf", agent |-> agent_account,
          record |-> reputation_record]
    ELSE
    LET record == [reputation_record EXCEPT
                      !.agent = agent_addr, !.rater = rater, !.score = score,
                      !.comment = comment, !.timestamp = Now]
        sum == checked_add(agent_account.reputation_score, score)
    IN  IF sum = {}
        THEN [result |-> "ArithmeticOverflow", agent |-> agent_account,
              record |-> record]
        ELSE [result |-> "Ok",
              agent |-> [agent_account EXCEPT
                            !.reputation_score = CHOOSE v \in sum : TRUE],
              record |-> record]

\* The space the account of a stored agent was allocated with.
AgentAccountSpace(a) ==
    IF a.layout = "registry" THEN RegisterAgent_space ELSE CreatePrivateAgent_space

\* The whole instruction: UpdateReputation's account checks and init, the
\* handler, the write-back of agent_account (mut) and reputation_record (init).
update_reputation(agent_addr, rater, score, comment) ==
    IF agent_accounts[agent_addr] = Empty
    THEN Outcome("AccountNotInitialized", agent_accounts, reputation_records,
                 groups, permissions)
    ELSE
    LET raddr == ReputationAddress(agent_addr, rater)
        created == init(reputation_records, raddr, ZeroReputationRecord)
    IN  IF created.result # "Ok"
        THEN Outcome(created.result, agent_accounts, reputation_records,
                     groups, permissions)
        ELSE
        LET h == update_reputation_handler(agent_accounts[agent_addr],
                     created.store[raddr], agent_addr, rater, score, comment)
        IN  IF h.result # "Ok"
            THEN Outcome(h.result, agent_accounts, created.store,
                         groups, permissions)
            ELSE
            LET wa == exit(agent_accounts, agent_addr, h.agent,
                           AgentAccountSize(h.agent), AgentAccountSpace(h.agent))
                wr == exit(created.store, raddr, h.record,
                           ReputationRecordSize(h.record), UpdateReputation_space)
            IN  IF wa.result # "Ok"
                THEN Outcome(wa.result, wa.store, created.store, groups, permissions)
                ELSE Outcome(wr.result, wa.store, wr.store, groups, permissions)

\* The (score, comment) pairs update_reputation is called with: both ends of
\* the score range, one past each end, and comments of no length, of the
\* largest length the allocated space holds, one byte more, the documented
\* maximum and one byte more.
RateArgs ==
    { [score |-> 100, comment |-> 256],
      [score |-> -100, comment |-> 0],
      [score |-> 42, comment |-> 257],
      [score |-> 42, comment |-> MAX_COMMENT_LEN],
      [score |-> 101, comment |-> 4],
      [score |-> -101, comment |-> 0],
      [score |-> -10, comment |-> MAX_COMMENT_LEN + 1],
      [score |-> 101, comment |-> MAX_COMMENT_LEN + 1] }

UpdateReputation ==
    \E agent_addr \in AgentAddrs, rater \in Keys, args \in RateArgs :
        LET out == update_reputation(agent_addr, rater, args.score, args.comment)
        IN  /\ Commit(out)
            /\ last' = [op |-> "update_reputation", agent_account |-> agent_addr,
                        rater |-> rater, score |-> args.score,
                        comment |-> args.comment, result |-> out.result]

----------------------------------------------------------------------------
(* Permission hooks *)

\* Keys that pay for a permission group.
Payers == {1, NumKeys}

\* The member lists a group is created with.
MemberLists == {<<NumKeys>>}

\* What the permission program answers to one create_agent_permission: it
\* accepts both calls, rejects the group, or rejects the permission.
CpiAnswers == {"accept", "reject_group", "reject_permission"}

\* The elements of a Vec<Pubkey>.
Range(seq) == {seq[i] : i \in 1..Len(seq)}

\* CreateAgentPermission without the seeds constraint on agent_account.
CreateAgentPermission_accounts_unseeded(agent_owner, agent_addr) ==
    IF agent_accounts[agent_addr] = Empty THEN "AccountNotInitialized" ELSE "Ok"

\* The checks of CreateAgentPermission: agent_account holds an AgentAccount
\* and its address is the one derived from the signing agent_owner.
CreateAgentPermission_accounts(agent_owner, agent_addr) ==
    IF agent_accounts[agent_addr] = Empty THEN "AccountNotInitialized"
    ELSE IF agent_addr # AgentAddress(agent_owner) THEN "ConstraintSeeds"
    ELSE "Ok"

\* CreateGroupCpiBuilder ... .invoke(): the permission program creates the
\* group unless it rejects the call; it rejects an id that is already a group.
CreateGroupCpi(grps, group_id, members, answer) ==
    IF grps[group_id].exists \/ answer = "reject_group"
    THEN [result |-> "CreateGroupFailed", groups |-> grps]
    ELSE [result |-> "Ok",
          groups |-> [grps EXCEPT ![group_id] =
                         [exists |-> TRUE, members |-> Range(members)]]]

\* CreatePermissionCpiBuilder ... .invoke_signed(): the permission program
\* links the delegated account to the group unless it rejects the call.
CreatePermissionCpi(perms, delegated_account, group_id, answer) ==
    IF answer = "reject_permission"
    THEN [result |-> "CreatePermissionFailed", permissions |-> perms]
    ELSE [result |-> "Ok",
          permissions |-> perms \cup {[delegated_account |-> delegated_account,
                                       group |-> group_id]}]

\* Write-back of CreateAgentPermission: agent_account is declared with seeds
\* and bump only, not mut, so its in-memory value is not serialized.
CreateAgentPermission_exit(store, addr, value) == store

\* What create_agent_permission returns: the outcome, with the calls to the
\* permission program it has issued and the write to agent_account it has
\* made ("CreateGroup", "CreatePermission", "permission_group"), in order.
Performed(out, steps) ==
    [result |-> out.result, agent_accounts |-> out.agent_accounts,
     reputation_records |-> out.reputation_records, groups |-> out.groups,
     permissions |-> out.permissions, steps |-> steps]

\* create_agent_permission with the result of the second call dropped.
create_agent_permission_unchecked(agent_owner, agent_addr, group_id, members, answer) ==
    LET checked == CreateAgentPermission_accounts(agent_owner, agent_addr)
    IN  IF checked # "Ok"
        THEN Performed(Outcome(checked, agent_accounts, reputation_records,
                               groups, permissions), <<>>)
        ELSE
        LET g == CreateGroupCpi(groups, group_id, members, answer)
        IN  IF g.result # "Ok"
            THEN Performed(Outcome(g.result, agent_accounts, reputation_records,
                                   g.groups, permissions), <<"CreateGroup">>)
            ELSE
            LET p == CreatePermissionCpi(permissions, agent_addr, group_id, answer)
                agent == [agent_accounts[agent_addr] EXCEPT
                             !.permission_group = {group_id}]
            IN  Performed(Outcome("Ok",
                            CreateAgentPermission_exit(agent_accounts, agent_addr,
                                                       agent),
                            reputation_records, g.groups, p.permissions),
                          <<"CreateGroup", "CreatePermission", "permission_group">>)

\* create_agent_permission with the group id stored before the two calls.
create_agent_permission_store_first(agent_owner, agent_addr, group_id, members, answer) ==
    LET checked == CreateAgentPermission_accounts(agent_owner, agent_addr)
    IN  IF checked # "Ok"
        THEN Performed(Outcome(checked, agent_accounts, reputation_records,
                               groups, permissions), <<>>)
        ELSE
        LET agent == [agent_accounts[agent_addr] EXCEPT
                         !.permission_group = {group_id}]
            g == CreateGroupCpi(groups, group_id, members, answer)
        IN  IF g.result # "Ok"
            THEN Performed(Outcome(g.result, agent_accounts, reputation_records,
                                   g.groups, permissions),
                           <<"permission_group", "CreateGroup">>)
            ELSE
            LET p == CreatePermissionCpi(permissions, agent_addr, group_id, answer)
            IN  IF p.result # "Ok"
                THEN Performed(Outcome(p.result, agent_accounts,
                                       reputation_records, g.groups, p.permissions),
                               <<"permission_group", "CreateGroup",
                                 "CreatePermission">>)
                ELSE Performed(Outcome("Ok",
                                 CreateAgentPermission_exit(agent_accounts,
                                                            agent_addr, agent),
                                 reputation_records, g.groups, p.permissions),
                               <<"permission_group", "CreateGroup",
                                 "CreatePermission">>)

\* The whole instruction: the account checks, [1] the group, [2] the
\* permission, [3] the group id stored in agent_account, the write-back.
\* Each call ends in `?`: its error is the instruction's error.
create_agent_permission(agent_owner, agent_addr, group_id, members, answer) ==
    LET checked == CreateAgentPermission_accounts(agent_owner, agent_addr)
    IN  IF checked # "Ok"
        THEN Performed(Outcome(checked, agent_accounts, reputation_records,
                               groups, permissions), <<>>)
        ELSE
        LET g == CreateGroupCpi(groups, group_id, members, answer)
        IN  IF g.result # "Ok"
            THEN Performed(Outcome(g.result, agent_accounts, reputation_records,
                                   g.groups, permissions), <<"CreateGroup">>)
            ELSE
            LET p == CreatePermissionCpi(permissions, agent_addr, group_id, answer)
            IN  IF p.result # "Ok"
                THEN Performed(Outcome(p.result, agent_accounts,
                                       reputation_records, g.groups, p.permissions),
                               <<"CreateGroup", "CreatePermission">>)
                ELSE
                LET agent == [agent_accounts[agent_addr] EXCEPT
                                 !.permission_group = {group_id}]
                IN  Performed(Outcome("Ok",
                                CreateAgentPermission_exit(agent_accounts,
                                                           agent_addr, agent),
                                reputation_records, g.groups, p.permissions),
                              <<"CreateGroup", "CreatePermission",
                                "permission_group">>)

CreateAgentPermission ==
    \E payer \in Payers, agent_owner \in Keys, agent_addr \in AgentAddrs,
       group_id \in GroupIds, members \in MemberLists, answer \in CpiAnswers :
        LET out == create_agent_permission(agent_owner, agent_addr, group_id,
                                           members, answer)
        IN  /\ Commit(out)
            /\ last' = [op |-> "create_agent_permission", payer |-> payer,
                        agent_owner |-> agent_owner, agent_account |-> agent_addr,
                        group_id |-> group_id, members |-> members,
                        answer |-> answer, steps |-> out.steps,
                        result |-> out.result]

\* AddGroupMember / RemoveGroupMember without the seeds and the constraint on
\* agent_account.
GroupMember_accounts_unconstrained(agent_owner, agent_addr) ==
    IF agent_accounts[agent_addr] = Empty THEN "AccountNotInitialized" ELSE "Ok"

\* The checks of AddGroupMember and of RemoveGroupMember: the seeds of
\* agent_account and the constraint agent_account.owner == agent_owner.key().
GroupMember_accounts(agent_owner, agent_addr) ==
    IF agent_accounts[agent_addr] = Empty THEN "AccountNotInitialized"
    ELSE IF agent_addr # AgentAddress(agent_owner) THEN "ConstraintSeeds"
    ELSE IF ~(agent_accounts[agent_addr].authority = agent_owner) THEN "ConstraintRaw"
    ELSE "Ok"

\* add_group_member: the body logs a message and returns Ok.
add_group_member(agent_owner, agent_addr, group, new_member) ==
    Outcome(GroupMember_accounts(agent_owner, agent_addr),
            agent_accounts, reputation_records, groups, permissions)

\* remove_group_member: the body logs a message and returns Ok.
remove_group_member(agent_owner, agent_addr, group, member_to_remove) ==
    Outcome(GroupMember_accounts(agent_owner, agent_addr),
            agent_accounts, reputation_records, groups, permissions)

AddGroupMember ==
    \E agent_owner \in Keys, agent_addr \in AgentAddrs, group \in GroupIds,
       new_member \in Keys :
        LET out == add_group_member(agent_owner, agent_addr, group, new_member)
        IN  /\ Commit(out)
            /\ last' = [op |-> "add_group_member", agent_owner |-> agent_owner,
                        agent_account |-> agent_addr, group |-> group,
                        member |-> new_member, result |-> out.result]

RemoveGroupMember ==
    \E agent_owner \in Keys, agent_addr \in AgentAddrs, group \in GroupIds,
       member_to_remove \in Keys :
        LET out == remove_group_member(agent_owner, agent_addr, group,
                                       member_to_remove)
        IN  /\ Commit(out)
            /\ last' = [op |-> "remove_group_member", agent_owner |-> agent_owner,
                        agent_account |-> agent_addr, group |-> group,
                        member |-> member_to_remove, result |-> out.result]

\* create_private_agent with init_if_needed in place of init.
create_private_agent_if_needed(agent_owner, name, initial_balance) ==
    LET addr == AgentAddress(agent_owner)
        created == init_if_needed(agent_accounts, addr, ZeroAgentAccount("private"))
        agent == [created.store[addr] EXCEPT
                     !.authority = agent_owner, !.name = name,
                     !.balance = initial_balance, !.generation = 0,
                     !.registered_at = Now, !.permission_group = {}]
        written == exit(created.store, addr, agent, AgentAccountSize(agent),
                        CreatePrivateAgent_space)
    IN  Outcome(written.result, written.store, reputation_records,
                groups, permissions)

\* create_private_agent: CreatePrivateAgent's init, the field writes, the
\* write-back.
create_private_agent(agent_owner, name, initial_balance) ==
    LET addr == AgentAddress(agent_owner)
        created == init(agent_accounts, addr, ZeroAgentAccount("private"))
    IN  IF created.result # "Ok"
        THEN Outcome(created.result, agent_accounts, reputation_records,
                     groups, permissions)
        ELSE
        LET agent == [created.store[addr] EXCEPT
                         !.authority = agent_owner, !.name = name,
                         !.balance = initial_balance, !.generation = 0,
                         !.registered_at = Now, !.permission_group = {}]
            written == exit(created.store, addr, agent, AgentAccountSize(agent),
                            CreatePrivateAgent_space)
        IN  Outcome(written.result, written.store, reputation_records,
                    groups, permissions)

CreatePrivateAgent ==
    \E agent_owner \in Registrants, name \in {5}, initial_balance \in {0} :
        LET out == create_private_agent(agent_owner, name, initial_balance)
        IN  /\ Commit(out)
            /\ last' = [op |-> "create_private_agent", agent_owner |-> agent_owner,
                        name |-> name, initial_balance |-> initial_balance,
                        result |-> out.result]

----------------------------------------------------------------------------
(* The state machine *)

Init ==
    /\ agent_accounts = [a \in AgentAddrs |-> Empty]
    /\ reputation_records = [r \in ReputationAddrs |-> Empty]
    /\ groups = [g \in GroupIds |-> NoGroup]
    /\ permissions = {}
    /\ last = [op |-> "none", result |-> "Ok"]

Next ==
    \/ RegisterAgent
    \/ UpdateReputation
    \/ CreateAgentPermission
    \/ AddGroupMember
    \/ RemoveGroupMember
    \/ CreatePrivateAgent

\* The whole program.
Spec == Init /\ [][Next]_vars

\* The registry and the reputation ledger: the instructions of lib.rs.
NextLedger ==
    \/ RegisterAgent
    \/ UpdateReputation

SpecLedger == Init /\ [][NextLedger]_vars

\* The registry and the permission hooks: the instructions that create agent
\* accounts and those of permission_hooks.rs.
NextPermissions ==
    \/ RegisterAgent
    \/ CreatePrivateAgent
    \/ CreateAgentPermission
    \/ AddGroupMember
    \/ RemoveGroupMember

SpecPermissions == Init /\ [][NextPermissions]_vars

----------------------------------------------------------------------------
(* Properties of the reputation ledger and the registry (SpecLedger) *)

\* The addresses of the reputation records stored for the agent at address a.
RecordsOf(a) ==
    {addr \in ReputationAddrs :
        /\ reputation_records[addr] # Empty
        /\ reputation_records[addr].agent = a}

RECURSIVE SumScores(_)
\* The sum of the scores of the records at the addresses in S.
SumScores(S) ==
    IF S = {} THEN 0
    ELSE LET addr == CHOOSE x \in S : TRUE
         IN  reputation_records[addr].score + SumScores(S \ {addr})

\* C1: one rating per (agent, rater).  An update_reputation submitted for a
\* pair whose record already exists fails with AccountAlreadyInUse (the
\* ConflictError), whatever its score and comment, and changes no agent
\* account and no reputation record; and no instruction ever changes or
\* removes a stored reputation record, so a pair succeeds at most once.
C1_RateOncePerPair ==
    [][ /\ (/\ last'.op = "update_reputation"
            /\ reputation_records[ReputationAddress(last'.agent_account,
                                                    last'.rater)] # Empty)
           => /\ last'.result = "AccountAlreadyInUse"
              /\ agent_accounts' = agent_accounts
              /\ reputation_records' = reputation_records
        /\ \A addr \in ReputationAddrs :
              reputation_records[addr] # Empty
                 => reputation_records'[addr] = reputation_records[addr]
      ]_vars

\* C1 witness: a second rating of a pair, with a score in range that differs
\* from the stored one, has been rejected; the agent's score is the stored one.
C1_Witness ==
    /\ last.op = "update_reputation"
    /\ last.result = "AccountAlreadyInUse"
    /\ last.score \in {-100, 100}
    /\ LET rec == reputation_records[ReputationAddress(last.agent_account,
                                                       last.rater)]
       IN  /\ rec # Empty
           /\ rec.score # last.score
           /\ agent_accounts[last.agent_account].reputation_score = rec.score

\* C2: in every reachable state the reputation_score of every stored agent is
\* the sum of the scores of the reputation records stored for it (0 when there
\* are none), and no record is stored for an address that holds no agent.
C2_ScoreIsSumOfRecords ==
    \A a \in AgentAddrs :
        IF agent_accounts[a] = Empty
        THEN RecordsOf(a) = {}
        ELSE agent_accounts[a].reputation_score = SumScores(RecordsOf(a))

\* C2 witness: one agent holds two records (100 and -100), the other holds one
\* record and a score of 100, and the last instruction failed.
C2_Witness ==
    /\ last.result # "Ok"
    /\ \E a, b \in AgentAddrs :
          /\ a # b
          /\ agent_accounts[a] # Empty
          /\ agent_accounts[b] # Empty
          /\ Cardinality(RecordsOf(a)) = 2
          /\ {reputation_records[x].score : x \in RecordsOf(a)} = {-100, 100}
          /\ Cardinality(RecordsOf(b)) = 1
          /\ agent_accounts[b].reputation_score = 100

\* Whether update_reputation's own preconditions hold for the call in l, made
\* in the current state: the agent exists, the pair has no record, the score
\* and the comment are in range and the rater is not the agent's authority.
RatePreconditions(l) ==
    /\ agent_accounts[l.agent_account] # Empty
    /\ reputation_records[ReputationAddress(l.agent_account, l.rater)] = Empty
    /\ l.score >= -100 /\ l.score <= 100
    /\ l.comment <= MAX_COMMENT_LEN
    /\ agent_accounts[l.agent_account].authority # l.rater

\* C3: when reputation_score + score leaves the range of the score type, an
\* otherwise valid update_reputation fails with ArithmeticOverflow and is
\* atomic: every agent account keeps its value (no saturation, no wraparound)
\* and no record exists for the pair afterwards, so the rater can rate later.
C3_OverflowAborts ==
    [][ (/\ last'.op = "update_reputation"
         /\ RatePreconditions(last')
         /\ LET sum == agent_accounts[last'.agent_account].reputation_score
                          + last'.score
            IN  sum > I64_MAX \/ sum < I64_MIN)
        => /\ last'.result = "ArithmeticOverflow"
           /\ agent_accounts' = agent_accounts
           /\ reputation_records' = reputation_records
           /\ reputation_records'[ReputationAddress(last'.agent_account,
                                                    last'.rater)] = Empty
      ]_vars

\* C3 witness: a rating has been refused for overflow; the score is still in
\* range and the refused rater has no record.
C3_Witness ==
    /\ last.op = "update_reputation"
    /\ last.result = "ArithmeticOverflow"
    /\ agent_accounts[last.agent_account].reputation_score \in {-100, 100}
    /\ reputation_records[ReputationAddress(last.agent_account, last.rater)] = Empty

\* C4 as stated: a rating submitted by the agent's own authority fails with
\* CannotRateSelf for every score and every comment.
C4_SelfRateAlwaysCannotRateSelf ==
    (/\ last.op = "update_reputation"
     /\ agent_accounts[last.agent_account] # Empty
     /\ agent_accounts[last.agent_account].authority = last.rater)
    => last.result = "CannotRateSelf"

\* C4 as amended: a rating submitted by the agent's own authority always
\* fails and changes no agent account and no reputation record; it fails with
\* InvalidReputationScore when the score is outside [-100,100], else with
\* CommentTooLong when the comment is longer than 500, else with CannotRateSelf.
C4_SelfRateAlwaysFails ==
    [][ (/\ last'.op = "update_reputation"
         /\ agent_accounts[last'.agent_account] # Empty
         /\ agent_accounts[last'.agent_account].authority = last'.rater)
        => /\ last'.result =
                 IF last'.score < -100 \/ last'.score > 100
                 THEN "InvalidReputationScore"
                 ELSE IF last'.comment > MAX_COMMENT_LEN THEN "CommentTooLong"
                 ELSE "CannotRateSelf"
           /\ agent_accounts' = agent_accounts
           /\ reputation_records' = reputation_records
      ]_vars

\* C4 witness: the authority of an agent that already holds a rating has
\* tried to rate it with a valid score and comment, and got CannotRateSelf.
C4_Witness ==
    /\ last.op = "update_reputation"
    /\ last.result = "CannotRateSelf"
    /\ agent_accounts[last.agent_account].authority = last.rater
    /\ last.score = 100
    /\ RecordsOf(last.agent_account) # {}

\* Whether the arguments of register_agent are within the documented bounds.
WithinBounds(args) ==
    /\ args.name <= MAX_NAME_LEN
    /\ args.description <= MAX_DESCRIPTION_LEN
    /\ args.agent_uri <= MAX_URI_LEN
    /\ Len(args.services) <= MAX_SERVICES
    /\ \A i \in 1..Len(args.services) : args.services[i] <= MAX_SERVICE_LEN

\* C5 as stated: register_agent with arguments within the bounds, by an
\* authority with no account, succeeds, and the account stored at the derived
\* address holds every argument, reputation_score = 0 and active = TRUE.
C5_RegisterThenRead ==
    [][ (/\ last'.op = "register_agent"
         /\ WithinBounds(last'.args)
         /\ agent_accounts[AgentAddress(last'.authority)] = Empty)
        => /\ last'.result = "Ok"
           /\ LET a == agent_accounts'[AgentAddress(last'.authority)]
              IN  /\ a # Empty
                  /\ a.authority = last'.authority
                  /\ a.name = last'.args.name
                  /\ a.description = last'.args.description
                  /\ a.agent_uri = last'.args.agent_uri
                  /\ a.services = last'.args.services
                  /\ a.x402_support = last'.args.x402_support
                  /\ a.generation = last'.args.generation
                  /\ a.reputation_score = 0
                  /\ a.active = TRUE
      ]_vars

\* C6: a register_agent submitted by an authority whose account exists fails
\* with AccountAlreadyInUse (the ConflictError), whatever its arguments, and
\* leaves every agent account, with the score it has accumulated, as it was.
C6_SecondRegisterFails ==
    [][ (/\ last'.op = "register_agent"
         /\ agent_accounts[AgentAddress(last'.authority)] # Empty)
        => /\ last'.result = "AccountAlreadyInUse"
           /\ agent_accounts' = agent_accounts
           /\ reputation_records' = reputation_records
      ]_vars

\* C6 witness: a second registration, with other arguments within the bounds,
\* has been rejected for an agent that has been rated in between.
C6_Witness ==
    /\ last.op = "register_agent"
    /\ last.result = "AccountAlreadyInUse"
    /\ WithinBounds(last.args)
    /\ LET a == agent_accounts[AgentAddress(last.authority)]
       IN  /\ a # Empty
           /\ a.reputation_score # 0
           /\ a.name # last.args.name
           /\ a.generation # last.args.generation

\* Whether register_agent accepts the arguments when nothing stands at the
\* owner's address: they are within the bounds and the record fits its account.
RegisterAcceptedAlone(authority, args) ==
    /\ WithinBounds(args)
    /\ AgentAccountSize(register_agent_handler(ZeroAgentAccount("registry"),
                                               authority, args).account)
          <= RegisterAgent_space

\* Whether update_reputation accepts the call in l when the pair has no record:
\* its preconditions hold, the record fits its account, the sum is in range.
RateAcceptedAlone(l) ==
    /\ agent_accounts[l.agent_account] # Empty
    /\ l.score >= -100 /\ l.score <= 100
    /\ l.comment <= MAX_COMMENT_LEN
    /\ agent_accounts[l.agent_account].authority # l.rater
    /\ ReputationRecord_BASE_SIZE + l.comment <= UpdateReputation_space
    /\ LET sum == agent_accounts[l.agent_account].reputation_score + l.score
       IN  sum <= I64_MAX /\ sum >= I64_MIN

\* C12: first writer wins.  Instructions run one at a time in some order.  Of
\* the calls that create one address (register_agent for one authority,
\* update_reputation for one (agent, rater) pair) and that the program would
\* accept on their own, the one that finds the address empty succeeds and
\* stores its own values; each one that finds it occupied is rejected with
\* AccountAlreadyInUse and changes nothing; a call returns Ok only when the
\* address was empty; a stored reputation record never changes and a stored
\* agent changes in reputation_score only, by the score of a winning rating.
C12_FirstWriterWins ==
    [][ /\ (last'.op = "register_agent")
           => LET addr == AgentAddress(last'.authority)
              IN  /\ agent_accounts[addr] # Empty
                        => /\ last'.result = "AccountAlreadyInUse"
                           /\ agent_accounts' = agent_accounts
                           /\ reputation_records' = reputation_records
                  /\ last'.result = "Ok" => agent_accounts[addr] = Empty
                  /\ (/\ agent_accounts[addr] = Empty
                      /\ RegisterAcceptedAlone(last'.authority, last'.args))
                        => /\ last'.result = "Ok"
                           /\ agent_accounts'[addr].authority = last'.authority
                           /\ agent_accounts'[addr].name = last'.args.name
                           /\ agent_accounts'[addr].generation
                                 = last'.args.generation
        /\ (last'.op = "update_reputation")
           => LET raddr == ReputationAddress(last'.agent_account, last'.rater)
                  a == last'.agent_account
              IN  /\ reputation_records[raddr] # Empty
                        => /\ last'.result = "AccountAlreadyInUse"
                           /\ agent_accounts' = agent_accounts
                           /\ reputation_records' = reputation_records
                  /\ last'.result = "Ok" => reputation_records[raddr] = Empty
                  /\ (/\ reputation_records[raddr] = Empty
                      /\ RateAcceptedAlone(last'))
                        => /\ last'.result = "Ok"
                           /\ reputation_records'[raddr].score = last'.score
                           /\ reputation_records'[raddr].comment = last'.comment
                           /\ reputation_records'[raddr].rater = last'.rater
                           /\ agent_accounts'[a].reputation_score
                                 = agent_accounts[a].reputation_score + last'.score
        /\ \A addr \in ReputationAddrs :
              reputation_records[addr] # Empty
                 => reputation_records'[addr] = reputation_records[addr]
        /\ \A addr \in AgentAddrs :
              agent_accounts[addr] # Empty
                 => [agent_accounts'[addr] EXCEPT !.reputation_score = 0]
                       = [agent_accounts[addr] EXCEPT !.reputation_score = 0]
      ]_vars

\* C12 witness: of two ratings of one pair, each acceptable on its own and
\* with different scores and comments, the later one has been rejected; the
\* agent holds records of two raters and its score counts the winner only.
C12_Witness ==
    /\ last.op = "update_reputation"
    /\ last.result = "AccountAlreadyInUse"
    /\ last.score \in {-100, 100}
    /\ ReputationRecord_BASE_SIZE + last.comment <= UpdateReputation_space
    /\ agent_accounts[last.agent_account].authority # last.rater
    /\ LET rec == reputation_records[ReputationAddress(last.agent_account,
                                                       last.rater)]
       IN  /\ rec # Empty
           /\ rec.score = -last.score
           /\ rec.comment # last.comment
    /\ Cardinality(RecordsOf(last.agent_account)) = 2
    /\ agent_accounts[last.agent_account].reputation_score
          = SumScores(RecordsOf(last.agent_account))

\* The validation errors of register_agent.
RegisterValidationErrors ==
    {"NameTooLong", "DescriptionTooLong", "UriTooLong", "TooManyServices",
     "ServiceNameTooLong"}

\* The named error of the first bound the arguments exceed, in the order
\* name, description, agent_uri, number of services, length of a service.
FirstBoundError(args) ==
    IF args.name > MAX_NAME_LEN THEN "NameTooLong"
    ELSE IF args.description > MAX_DESCRIPTION_LEN THEN "DescriptionTooLong"
    ELSE IF args.agent_uri > MAX_URI_LEN THEN "UriTooLong"
    ELSE IF Len(args.services) > MAX_SERVICES THEN "TooManyServices"
    ELSE "ServiceNameTooLong"

\* C14: a register_agent whose arguments exceed a bound, submitted by an
\* authority that has no account, fails with the named error of the first
\* bound exceeded and is all-or-nothing: no account and no record changes, the
\* authority's address holds no account afterwards, and a register_agent by
\* the same authority that follows it with arguments the program accepts
\* succeeds.
C14_BoundViolationAborts ==
    [][ /\ (/\ last'.op = "register_agent"
            /\ ~WithinBounds(last'.args)
            /\ agent_accounts[AgentAddress(last'.authority)] = Empty)
           => /\ last'.result = FirstBoundError(last'.args)
              /\ agent_accounts' = agent_accounts
              /\ reputation_records' = reputation_records
              /\ agent_accounts'[AgentAddress(last'.authority)] = Empty
        /\ (/\ last.op = "register_agent"
            /\ last.result \in RegisterValidationErrors
            /\ last'.op = "register_agent"
            /\ last'.authority = last.authority
            /\ RegisterAcceptedAlone(last'.authority, last'.args))
           => /\ last'.result = "Ok"
              /\ agent_accounts'[AgentAddress(last'.authority)].name
                    = last'.args.name
      ]_vars

\* C14 witness: a registration that exceeds two bounds (agent_uri and the
\* length of a service) has been refused with the error of the first, the
\* authority has no account, and the other authority's rated account stands.
C14_Witness ==
    /\ last.op = "register_agent"
    /\ last.result = "UriTooLong"
    /\ \E i \in 1..Len(last.args.services) :
          last.args.services[i] > MAX_SERVICE_LEN
    /\ agent_accounts[AgentAddress(last.authority)] = Empty
    /\ \E a \in AgentAddrs :
          /\ agent_accounts[a] # Empty
          /\ agent_accounts[a].reputation_score # 0

\* A stored agent account with the two fields that may change set aside.
CreationFields(a) ==
    [a EXCEPT !.reputation_score = 0, !.permission_group = {}]

Abs(n) == IF n < 0 THEN -n ELSE n

\* C20: in every reachable state every stored reputation record is
\* well-formed: its score is in [-100,100], its comment has at most 500
\* bytes, its agent field is the address of a stored agent account, its rater
\* is not that agent's authority, and it stands at the address derived from
\* its agent and its rater; so the absolute value of an agent's
\* reputation_score is at most 100 times the number of records stored for it.
C20_RecordsAreWellFormed ==
    /\ \A addr \in ReputationAddrs :
          reputation_records[addr] # Empty
            => LET rec == reputation_records[addr]
               IN  /\ rec.score >= -100 /\ rec.score <= 100
                   /\ rec.comment <= MAX_COMMENT_LEN
                   /\ rec.agent \in AgentAddrs
                   /\ agent_accounts[rec.agent] # Empty
                   /\ rec.rater # agent_accounts[rec.agent].authority
                   /\ addr = ReputationAddress(rec.agent, rec.rater)
    /\ \A a \in AgentAddrs :
          agent_accounts[a] # Empty
            => Abs(agent_accounts[a].reputation_score)
                  <= 100 * Cardinality(RecordsOf(a))

\* C20 witness: an agent holds one record and a score of -100, the largest
\* absolute value one record allows, and its own authority has just tried to
\* add a rating of -100 and was refused.
C20_Witness ==
    /\ last.op = "update_reputation"
    /\ last.result = "CannotRateSelf"
    /\ last.score = -100
    /\ Cardinality(RecordsOf(last.agent_account)) = 1
    /\ agent_accounts[last.agent_account].reputation_score = -100

----------------------------------------------------------------------------
(* Properties of the permission hooks (SpecPermissions) *)

\* C7 as stated: after create_agent_permission has returned Ok, the agent
\* account stored at agent_account holds permission_group = Some(group_id).
C7_LinkIsStored ==
    (/\ last.op = "create_agent_permission"
     /\ last.result = "Ok")
    => agent_accounts[last.agent_account].permission_group = {last.group_id}

\* C8: when the permission program rejects the group (it rejects the call, or
\* the id is already a group) or rejects the permission, an otherwise valid
\* create_agent_permission fails with that call's error and nothing is kept:
\* no agent account, group or permission changes, so a group created by the
\* first call is gone when the second call is rejected.
C8_RejectedCallKeepsNothing ==
    [][ (/\ last'.op = "create_agent_permission"
         /\ CreateAgentPermission_accounts(last'.agent_owner,
                                           last'.agent_account) = "Ok"
         /\ (last'.answer # "accept" \/ groups[last'.group_id].exists))
        => /\ last'.result =
                 IF last'.answer = "reject_group" \/ groups[last'.group_id].exists
                 THEN "CreateGroupFailed" ELSE "CreatePermissionFailed"
           /\ agent_accounts' = agent_accounts
           /\ groups' = groups
           /\ permissions' = permissions
      ]_vars

\* C8 witness: the permission has been rejected after the group was accepted,
\* and the group of the call does not exist.
C8_Witness ==
    /\ last.op = "create_agent_permission"
    /\ last.result = "CreatePermissionFailed"
    /\ ~groups[last.group_id].exists
    /\ permissions = {}

\* C9: create_agent_permission returns Ok only when the signing agent_owner is
\* the authority stored in the agent account; when it is another key (the
\* payer may be that key or not), the instruction fails with ConstraintSeeds
\* (an AuthorizationError), no group and no permission is created, and the
\* account's permission_group stays None.
C9_OnlyOwnerLinks ==
    [][ (/\ last'.op = "create_agent_permission"
         /\ agent_accounts[last'.agent_account] # Empty)
        => LET owner == agent_accounts[last'.agent_account].authority
           IN  /\ last'.result = "Ok" => last'.agent_owner = owner
               /\ last'.agent_owner # owner
                    => /\ last'.result = "ConstraintSeeds"
                       /\ groups' = groups
                       /\ permissions' = permissions
                       /\ agent_accounts' = agent_accounts
                       /\ agent_accounts'[last'.agent_account].permission_group = {}
      ]_vars

\* C9 witness: a key that owns an agent of its own, signing as agent_owner and
\* paying, has named another owner's account with an accepting permission
\* program, and was refused.
C9_Witness ==
    /\ last.op = "create_agent_permission"
    /\ last.result = "ConstraintSeeds"
    /\ last.answer = "accept"
    /\ last.payer = last.agent_owner
    /\ last.agent_owner \in Registrants
    /\ agent_accounts[AgentAddress(last.agent_owner)] # Empty
    /\ agent_accounts[last.agent_account].authority # last.agent_owner
    /\ ~groups[last.group_id].exists

\* C10 as stated, for a group that exists and is linked to the agent: after
\* add_group_member has returned Ok the member is in the group, and after
\* remove_group_member has returned Ok it is not.
C10_MembershipIsDelegated ==
    (/\ last.op \in {"add_group_member", "remove_group_member"}
     /\ last.result = "Ok"
     /\ groups[last.group].exists
     /\ [delegated_account |-> last.agent_account, group |-> last.group]
           \in permissions)
    => IF last.op = "add_group_member"
       THEN last.member \in groups[last.group].members
       ELSE last.member \notin groups[last.group].members

\* C11: add_group_member and remove_group_member are owner-gated and change
\* nothing this program stores.  A call returns Ok only when the signing
\* agent_owner is the authority stored in the named agent account; a call
\* signed by another key, or naming an address that holds no agent, is
\* rejected; and every call, whatever it returns, leaves every agent account
\* (permission_group and reputation_score included) and every reputation
\* record as it was.
C11_MembershipCallsAreGatedNoOps ==
    [][ (last'.op \in {"add_group_member", "remove_group_member"})
        => /\ agent_accounts' = agent_accounts
           /\ reputation_records' = reputation_records
           /\ (last'.result = "Ok")
                 <=> /\ agent_accounts[last'.agent_account] # Empty
                     /\ agent_accounts[last'.agent_account].authority
                           = last'.agent_owner
      ]_vars

\* C11 witness: the owner of one agent has signed an add_group_member that
\* names another owner's agent, which is linked to an existing group, and was
\* refused.
C11_Witness ==
    /\ last.op = "add_group_member"
    /\ last.result # "Ok"
    /\ last.agent_owner \in Registrants
    /\ agent_accounts[AgentAddress(last.agent_owner)] # Empty
    /\ agent_accounts[last.agent_account] # Empty
    /\ agent_accounts[last.agent_account].authority # last.agent_owner
    /\ groups[last.group].exists
    /\ [delegated_account |-> last.agent_account, group |-> last.group]
          \in permissions

IsPrefix(s, t) ==
    /\ Len(s) <= Len(t)
    /\ \A i \in 1..Len(s) : s[i] = t[i]

\* C16: the steps of create_agent_permission are strictly ordered.  What one
\* execution does is an initial part of: the CreateGroup call, the
\* CreatePermission call, the write of permission_group.  The
\* CreatePermission call is issued only when CreateGroup has succeeded, and
\* permission_group is written only when both calls have succeeded: the
\* instruction then returns Ok, the group is new and the permission links the
\* agent account to it.
C16_StepsAreOrdered ==
    [][ (last'.op = "create_agent_permission")
        => LET done == Range(last'.steps)
               g == CreateGroupCpi(groups, last'.group_id, last'.members,
                                   last'.answer)
               p == CreatePermissionCpi(permissions, last'.agent_account,
                                        last'.group_id, last'.answer)
           IN  /\ IsPrefix(last'.steps,
                           <<"CreateGroup", "CreatePermission", "permission_group">>)
               /\ "CreatePermission" \in done => g.result = "Ok"
               /\ "permission_group" \in done
                     => /\ g.result = "Ok"
                        /\ p.result = "Ok"
                        /\ last'.result = "Ok"
                        /\ ~groups[last'.group_id].exists
                        /\ groups'[last'.group_id].exists
                        /\ [delegated_account |-> last'.agent_account,
                            group |-> last'.group_id] \in permissions'
               /\ last'.result = "Ok" => "permission_group" \in done
      ]_vars

\* C16 witness: the three steps have been done in order for a second agent,
\* after an execution for the first agent had created another group.
C16_Witness ==
    /\ last.op = "create_agent_permission"
    /\ last.result = "Ok"
    /\ last.steps = <<"CreateGroup", "CreatePermission", "permission_group">>
    /\ Cardinality(permissions) = 2
    /\ Cardinality({p.delegated_account : p \in permissions}) = 2
    /\ \A g \in GroupIds : groups[g].exists

\* The groups the permissions in perms link the agent account a to.
GroupsOf(perms, a) == {p.group : p \in {q \in perms : q.delegated_account = a}}

CreatorOf(l) == IF l.op = "register_agent" THEN l.authority ELSE l.agent_owner

\* C19: register_agent and create_private_agent create their account at the
\* same address, derived from "agent" and the owner's key.  In every state
\* each key is the authority of at most one stored agent account, the one at
\* its own address; and once either instruction has created the account of
\* an owner, each of the two fails for that owner with AccountAlreadyInUse
\* and leaves every agent account as it was.
C19_OneNamespace ==
    [][ /\ \A a \in AgentAddrs :
              agent_accounts'[a] # Empty
                => a = AgentAddress(agent_accounts'[a].authority)
        /\ \A k \in Keys :
              Cardinality({a \in AgentAddrs :
                              /\ agent_accounts'[a] # Empty
                              /\ agent_accounts'[a].authority = k}) <= 1
        /\ (/\ last'.op \in {"register_agent", "create_private_agent"}
            /\ agent_accounts[AgentAddress(CreatorOf(last'))] # Empty)
           => /\ last'.result = "AccountAlreadyInUse"
              /\ agent_accounts' = agent_accounts
      ]_vars

\* C19 witness: a register_agent with arguments within the bounds has been
\* refused for an owner whose account create_private_agent had created,
\* while the other owner's account was created by register_agent.
C19_Witness ==
    /\ last.op = "register_agent"
    /\ last.result = "AccountAlreadyInUse"
    /\ WithinBounds(last.args)
    /\ agent_accounts[AgentAddress(last.authority)].layout = "private"
    /\ \E a \in AgentAddrs :
          /\ agent_accounts[a] # Empty
          /\ agent_accounts[a].layout = "registry"

====
